---- MODULE Spec2Model ----
(***************************************************************************)
(* Model of document_converter.py: the report assembler generate_report,   *)
(* the per-file converters, the cross-reference helpers and the path       *)
(* context derivation.                                                     *)
(*                                                                         *)
(* Strings are sequences of one-character strings, so that basename,       *)
(* split, lower, endswith and replace are computed as the code computes    *)
(* them.  "/" stands for os.path.sep and "C:" for a drive specifier.       *)
(***************************************************************************)
EXTENDS Integers, Sequences, FiniteSets, TLC

VARIABLES
    pc,             \* position of the control thread
    arg,            \* argument record of the operation under way
    ret,            \* value returned by a pure helper
    tree,           \* the files os.walk yields, in discovery order
    idx,            \* index in tree of the next file of the walk
    doc,            \* the Document accumulator: sequence of blocks
    file_bookmarks, \* dict file_path -> bookmark_name, insertion ordered
    console,        \* what print() has written
    saved,          \* locations the report was written to by doc.save
    exitcode,       \* exit status of the process, -1 while running
    hist,           \* per visited file: what the collaborators did
    fs,             \* the files on disk: a set of <<path, content>> pairs
    sessions        \* per automation use: CoInitialize / CoUninitialize counts

vars == <<pc, arg, ret, tree, idx, doc, file_bookmarks, console, saved,
          exitcode, hist, fs, sessions>>

\* ------------------------------------------------------------------------
\* Bounds of the model
\* ------------------------------------------------------------------------
MaxDepth == 5
MaxFiles == 2
MaxRepeat == 12

\* ------------------------------------------------------------------------
\* Generic sequence helpers
\* ------------------------------------------------------------------------
Min(a, b) == IF a < b THEN a ELSE b

RECURSIVE Concat(_)
Concat(ss) == IF ss = <<>> THEN <<>> ELSE Head(ss) \o Concat(Tail(ss))

RECURSIVE Rep(_, _)
Rep(s, n) == IF n = 0 THEN <<>> ELSE s \o Rep(s, n - 1)

Take(s, n) == SubSeq(s, 1, Min(n, Len(s)))
Drop(s, n) == SubSeq(s, n + 1, Len(s))
LastN(s, n) == SubSeq(s, Len(s) - Min(n, Len(s)) + 1, Len(s))

\* the sequences over S of length at most n
SeqsUpTo(S, n) == UNION {[1..k -> S] : k \in 0..n}

\* ------------------------------------------------------------------------
\* os.path
\* ------------------------------------------------------------------------
sep == "/"
Drive == "C:"

\* str.rstrip(sep)
RECURSIVE rstrip(_)
rstrip(s) ==
    IF s # <<>> /\ s[Len(s)] = sep THEN rstrip(SubSeq(s, 1, Len(s) - 1)) ELSE s

\* index just beyond the last separator of s, 0 when there is none
RECURSIVE rfind1(_, _)
rfind1(s, i) == IF i = 0 \/ s[i] = sep THEN i ELSE rfind1(s, i - 1)

splitdrive(p) ==
    IF p # <<>> /\ p[1] = Drive THEN <<<<Drive>>, Tail(p)>> ELSE <<<<>>, p>>

\* os.path.split: <<head, tail>>; trailing separators are stripped from
\* head unless head consists of separators only
split(p) ==
    LET dp   == splitdrive(p)
        r    == dp[2]
        i    == rfind1(r, Len(r))
        head == SubSeq(r, 1, i)
        tail == SubSeq(r, i + 1, Len(r))
        h2   == IF rstrip(head) = <<>> THEN head ELSE rstrip(head)
    IN <<dp[1] \o h2, tail>>

dirname(p) == split(p)[1]
basename(p) == split(p)[2]

\* os.path.join(a, b) for a b that is neither absolute nor carries a drive
join2(a, b) ==
    IF a = <<>> THEN b
    ELSE IF a[Len(a)] = sep \/ a[Len(a)] = Drive THEN a \o b
    ELSE a \o <<sep>> \o b

\* os.path.join(*parts)
RECURSIVE joinAll(_)
joinAll(parts) ==
    IF Len(parts) = 1 THEN parts[1]
    ELSE join2(joinAll(SubSeq(parts, 1, Len(parts) - 1)), parts[Len(parts)])

\* ------------------------------------------------------------------------
\* get_path_context
\* ------------------------------------------------------------------------
Levels == 3

\* a walk that collects the names in the order visited, innermost first
WalkUpAppend(path, parts, n) ==
    LET RECURSIVE W(_, _, _)
        W(p, ps, k) ==
            IF k = 0 THEN ps
            ELSE LET ht  == split(p)
                     ps2 == IF ht[2] # <<>> THEN Append(ps, ht[2]) ELSE ps
                 IN IF ht[1] = <<>> \/ ht[1] = <<sep>> THEN ps2
                    ELSE W(ht[1], ps2, k - 1)
    IN W(path, parts, n)

\* the for loop of get_path_context: n iterations left, parts collected
RECURSIVE WalkUp(_, _, _)
WalkUp(path, parts, n) ==
    IF n = 0 THEN parts
    ELSE LET ht     == split(path)
             parts2 == IF ht[2] # <<>> THEN <<ht[2]>> \o parts ELSE parts
             path2  == ht[1]
         IN IF path2 = <<>> \/ path2 = <<sep>> THEN parts2
            ELSE WalkUp(path2, parts2, n - 1)

get_path_context(file_path) ==
    LET parts == WalkUp(dirname(file_path), <<>>, Levels)
    IN IF parts # <<>> THEN joinAll(parts) ELSE dirname(file_path)

\* ------------------------------------------------------------------------
\* str methods
\* ------------------------------------------------------------------------
\* str.lower() on the characters file names are drawn from
LowerChar(c) ==
    CASE c = "P" -> "p"
      [] c = "D" -> "d"
      [] c = "F" -> "f"
      [] c = "H" -> "h"
      [] c = "C" -> "c"
      [] c = "S" -> "s"
      [] c = "V" -> "v"
      [] OTHER -> c

lower(s) == [i \in 1..Len(s) |-> LowerChar(s[i])]

endswith(s, suf) ==
    /\ Len(s) >= Len(suf)
    /\ SubSeq(s, Len(s) - Len(suf) + 1, Len(s)) = suf

\* str.endswith(tuple of suffixes)
endswithAny(s, sufs) == \E suf \in sufs : endswith(s, suf)

\* str.replace(old, new) for one-character old and new
replace(s, old, new) == [i \in 1..Len(s) |-> IF s[i] = old THEN new ELSE s[i]]

\* os.path.splitext(filename)[1]: from the last dot, unless it leads the name
RECURSIVE rfindDot(_, _)
rfindDot(s, i) == IF i = 0 \/ s[i] = "." THEN i ELSE rfindDot(s, i - 1)

splitext1(filename) ==
    LET i == rfindDot(filename, Len(filename))
    IN IF i > 1 THEN SubSeq(filename, i, Len(filename)) ELSE <<>>

\* ------------------------------------------------------------------------
\* Cross-reference builder
\* ------------------------------------------------------------------------
get_valid_bookmark_name(file_path) ==
    <<"b", "m", "_">> \o replace(replace(basename(file_path), ".", "_"), " ", "_")

\* A block of the document is [k, v, w]: its kind, its text or payload, and
\* for a paragraph or heading the inline elements appended to it.
Block(k, v) == [k |-> k, v |-> v, w |-> <<>>]

\* The text of a block or of a console line is tagged by where it comes
\* from: Txt(s) is text taken from a file or a path, Msg(m) a message of the
\* program, MsgWith(m, p) a message formatted with the value p.
Txt(s) == <<"text", s>>
Msg(m) == <<"msg", m, <<>>>>
MsgWith(m, p) == <<"msg", m, p>>

\* doc.add_heading / add_paragraph / add_picture / add_table append a block
add_heading(d, text, level) ==
    Append(d, Block(CASE level = 0 -> "heading0"
                      [] level = 1 -> "heading1"
                      [] OTHER     -> "heading2", text))
add_paragraph(d, text) == Append(d, Block("paragraph", text))
add_picture(d, image) == Append(d, Block("picture", image))
add_table(d, cells, style) == Append(d, [k |-> "table", v |-> cells, w |-> style])

\* append an inline element to the last block of d (the paragraph in hand)
AddInline(d, el) ==
    [d EXCEPT ![Len(d)] = [@ EXCEPT !.w = Append(@, el)]]

\* add_bookmark(paragraph, bookmark_name): a run holding bookmarkStart(name)
\* and bookmarkEnd
add_bookmark(d, bookmark_name) ==
    AddInline(d, <<"bookmark", bookmark_name>>)

\* add_internal_hyperlink(paragraph, anchor_text, bookmark_name, tooltip)
add_internal_hyperlink(d, anchor_text, bookmark_name, tooltip) ==
    AddInline(d, <<"hyperlink", bookmark_name, anchor_text, tooltip>>)

\* paragraph.add_run(text)
add_run(d, text) == AddInline(d, <<"run", text>>)

\* ------------------------------------------------------------------------
\* Format converters.  Each takes the document and the behaviour of its
\* collaborators on this call, and returns [doc, out, raised]: the document
\* afterwards, what it printed, and whether an exception left the function.
\* ------------------------------------------------------------------------
Result(d, out) == [doc |-> d, out |-> out, raised |-> FALSE]
Escaped(d, out) == [doc |-> d, out |-> out, raised |-> TRUE]

ErrProcessing(file_path) == MsgWith("Error processing ", file_path)

\* where process_pdf can fail: "raster" is fitz.open, pdf[0], get_pixmap or
\* pix.save; then doc.add_picture; then os.remove of the temporary image
PdfFails == {"none", "raster", "add_picture", "remove"}

temp_image(file_path) ==
    <<"t", "e", "m", "p", "_">> \o basename(file_path) \o <<".", "p", "n", "g">>

process_pdf_unguarded(file_path, d, f) ==
    CASE f = "none"   -> Result(add_picture(d, <<"file", temp_image(file_path)>>), <<>>)
      [] f = "remove" -> Escaped(add_picture(d, <<"file", temp_image(file_path)>>), <<>>)
      [] OTHER        -> Escaped(d, <<>>)

process_pdf(file_path, d, f) ==
    CASE f = "none"   -> Result(add_picture(d, <<"file", temp_image(file_path)>>), <<>>)
      [] f = "remove" -> Result(add_picture(d, <<"file", temp_image(file_path)>>),
                                <<ErrProcessing(file_path)>>)
      [] OTHER        -> Result(d, <<ErrProcessing(file_path)>>)

\* abs_path.rsplit('.', 1)[0] + '.pdf'
pdf_path_of(abs_path) ==
    LET i == rfindDot(abs_path, Len(abs_path))
    IN (IF i = 0 THEN abs_path ELSE SubSeq(abs_path, 1, i - 1))
       \o <<".", "p", "d", "f">>

\* A source Word document as python-docx reads it: paragraph texts and tables
NoSrc == [paragraphs |-> <<>>, tables |-> <<>>]
WordSources ==
    {[paragraphs |-> << <<"p">> >>, tables |-> << << << <<"c">>, <<"d">> >> >> >>]}

\* lines 108-121: copy the paragraphs, then each table followed by a spacer
RECURSIVE CopyParagraphs(_, _)
CopyParagraphs(d, ps) ==
    IF ps = <<>> THEN d ELSE CopyParagraphs(add_paragraph(d, Txt(Head(ps))), Tail(ps))

RECURSIVE CopyTables(_, _)
CopyTables(d, ts) ==
    IF ts = <<>> THEN d
    ELSE CopyTables(add_paragraph(add_table(d, Head(ts), "Table Grid"), Txt(<<>>)), Tail(ts))

\* where the primary path of process_word / process_excel can fail, in the
\* order of the code: CoInitialize, DispatchEx, Open, SaveAs/Export, Close,
\* CoUninitialize, and removing the exported PDF after process_pdf
SessionFails == {"coinit", "dispatch"}
InnerFails == {"open", "export", "close", "uninit", "remove"}
\* with these the PDF export itself had succeeded
ExportedAt == {"none", "close", "uninit", "remove"}

\* where the fallback can fail: the CoUninitialize of the handler, loading
\* the source file
FallbackChoices(sources) ==
    {[fb |-> "uninit", src |-> NoSrc], [fb |-> "load", src |-> NoSrc]}
    \cup {[fb |-> "none", src |-> s] : s \in sources}

NoFallback == [fb |-> "n/a", src |-> NoSrc]

ConverterChoices(sources) ==
    {[primary |-> p, pdf |-> "n/a", fb |-> NoFallback.fb, src |-> NoSrc] :
        p \in SessionFails}
    \cup {[primary |-> p, pdf |-> "n/a", fb |-> f.fb, src |-> f.src] :
        p \in InnerFails \ {"remove"}, f \in FallbackChoices(sources)}
    \cup {[primary |-> "none", pdf |-> q, fb |-> NoFallback.fb, src |-> NoSrc] :
        q \in PdfFails}
    \cup {[primary |-> "remove", pdf |-> q, fb |-> f.fb, src |-> f.src] :
        q \in {"none", "raster"}, f \in FallbackChoices(sources)}

WordChoices == ConverterChoices(WordSources)

\* the except branch of lines 99-121, entered with document d
WordFallback(file_path, d, c) ==
    LET out == <<Msg("Error converting Word to PDF")>>
    IN IF c.fb \in {"uninit", "load"}
       THEN Result(d, out \o <<ErrProcessing(file_path)>>)
       ELSE Result(CopyTables(CopyParagraphs(d, c.src.paragraphs), c.src.tables), out)

process_word(file_path, d, c) ==
    IF c.primary \in SessionFails
    THEN Result(d, <<ErrProcessing(file_path)>>)
    ELSE IF c.primary \in {"open", "export", "close", "uninit"}
    THEN WordFallback(file_path, d, c)
    ELSE LET r == process_pdf(pdf_path_of(file_path), d, c.pdf)
         IN IF c.primary = "none" THEN r
            ELSE LET f == WordFallback(file_path, r.doc, c)
                 IN Result(f.doc, r.out \o f.out)

\* where process_image can fail: Image.open / img.save, then doc.add_picture
ImageFails == {"none", "codec", "add_picture"}

process_image(file_path, d, f) ==
    IF f = "none" THEN Result(add_picture(d, <<"stream", <<>>>>), <<>>)
    ELSE Result(d, <<ErrProcessing(file_path)>>)

\* ------------------------------------------------------------------------
\* process_excel
\* ------------------------------------------------------------------------
MaxColShown == 10
MaxRowShown == 11

\* A worksheet as openpyxl gives it: max_column, max_row (both at least 1)
\* and the cells whose value is None; every other cell (r, c) holds the
\* number 100 * r + c.
CellIsNone(sheet, r, c) == <<r, c>> \in sheet.nulls
CellValue(sheet, r, c) == 100 * r + c

DigitChar(k) == <<"0", "1", "2", "3", "4", "5", "6", "7", "8", "9">>[k + 1]

\* str(n) of a non-negative integer
RECURSIVE str(_)
str(n) == IF n < 10 THEN <<DigitChar(n)>> ELSE Append(str(n \div 10), DigitChar(n % 10))

\* A table is a sequence of rows, each a sequence of cell texts; a cell
\* object is the pair <<row, column>> of its place in the table.
RowCells(t, r) == [j \in 1..Len(t[r]) |-> <<r, j>>]
SetCellText(t, cell, text) == [t EXCEPT ![cell[1]][cell[2]] = text]

\* table.add_row(): a row of empty cells, one per column of the table
TableAddRow(t) == Append(t, [j \in 1..(IF t = <<>> THEN 0 ELSE Len(t[1])) |-> <<>>])

\* table.add_column() as line 196 calls it.  python-docx declares
\* Table.add_column(self, width) with no default for width, so the call
\* raises TypeError before the table is touched.
TableAddColumn(t) == [raised |-> TRUE, table |-> t, cells |-> <<>>]

\* lines 194-199: the header loop, header_cells being the cells in hand
RECURSIVE HeaderLoop(_, _, _, _, _)
HeaderLoop(t, header_cells, col, max_col, sheet) ==
    IF col > max_col THEN [raised |-> FALSE, table |-> t]
    ELSE LET a == IF Len(header_cells) < col
                  THEN TableAddColumn(t)
                  ELSE [raised |-> FALSE, table |-> t, cells |-> header_cells]
         IN IF a.raised THEN [raised |-> TRUE, table |-> a.table]
            ELSE IF CellIsNone(sheet, 1, col)
            THEN HeaderLoop(a.table, a.cells, col + 1, max_col, sheet)
            ELSE IF col > Len(a.cells)
            THEN [raised |-> TRUE, table |-> a.table]
            ELSE HeaderLoop(SetCellText(a.table, a.cells[col], str(CellValue(sheet, 1, col))),
                            a.cells, col + 1, max_col, sheet)

\* lines 204-207: fill one data row
RECURSIVE FillRow(_, _, _, _, _)
FillRow(t, row, col, max_col, sheet) ==
    IF col > max_col THEN [raised |-> FALSE, table |-> t]
    ELSE IF CellIsNone(sheet, row, col) THEN FillRow(t, row, col + 1, max_col, sheet)
    ELSE IF col > Len(t[Len(t)]) THEN [raised |-> TRUE, table |-> t]
    ELSE FillRow(SetCellText(t, <<Len(t), col>>, str(CellValue(sheet, row, col))),
                 row, col + 1, max_col, sheet)

\* lines 202-207: the data rows
RECURSIVE DataRows(_, _, _, _, _)
DataRows(t, row, max_row, max_col, sheet) ==
    IF row > max_row THEN [raised |-> FALSE, table |-> t]
    ELSE LET f == FillRow(TableAddRow(t), row, 1, max_col, sheet)
         IN IF f.raised THEN f ELSE DataRows(f.table, row + 1, max_row, max_col, sheet)

\* lines 185-207: the table built from the sheet, or where building stopped
ExcelTable(sheet) ==
    LET max_col == Min(MaxColShown, sheet.max_column)
        max_row == Min(MaxRowShown, sheet.max_row)
        t0      == << <<>> >>
        h       == HeaderLoop(t0, RowCells(t0, 1), 1, max_col, sheet)
    IN IF h.raised THEN h ELSE DataRows(h.table, 2, max_row, max_col, sheet)

FailedExcel == "Failed to process Excel file"
ExtractedExcel == "Excel data extracted directly using openpyxl."

\* the except branch of lines 171-213, entered with document d
ExcelFallback(file_path, d, c) ==
    LET out == <<Msg("Error converting Excel to PDF")>>
    IN IF c.fb = "uninit"
       THEN Result(add_paragraph(d, ErrProcessing(file_path)),
                   out \o <<ErrProcessing(file_path)>>)
       ELSE IF c.fb = "load"
       THEN Result(add_paragraph(d, Msg(FailedExcel)), out \o <<Msg("Error processing Excel file")>>)
       ELSE LET b == ExcelTable(c.src)
                d1 == add_table(d, b.table, "Table Grid")
            IN IF b.raised
               THEN Result(add_paragraph(d1, Msg(FailedExcel)),
                           out \o <<Msg("Error processing Excel file")>>)
               ELSE Result(add_paragraph(d1, Msg(ExtractedExcel)), out)

process_excel(file_path, d, c) ==
    IF c.primary \in SessionFails
    THEN Result(add_paragraph(d, ErrProcessing(file_path)), <<ErrProcessing(file_path)>>)
    ELSE IF c.primary \in {"open", "export", "close", "uninit"}
    THEN ExcelFallback(file_path, d, c)
    ELSE LET r == process_pdf(pdf_path_of(file_path), d, c.pdf)
         IN IF c.primary = "none" THEN r
            ELSE LET f == ExcelFallback(file_path, r.doc, c)
                 IN Result(f.doc, r.out \o f.out)

\* ------------------------------------------------------------------------
\* Text decoding: open(file_path, 'r', encoding=...) on a file of bytes.
\* A byte is a number 0..255, a decoded character its code point; a
\* double-byte character of a CJK codec is the number DbcsBase + 256 * lead
\* + trail, which is no ASCII character.  The files of the model are shorter
\* than one read-ahead chunk of the text layer, so the first read decodes
\* the whole file, and an incomplete trailing sequence is reported only
\* when reading reaches the end of the file.
\* ------------------------------------------------------------------------
LF == 10
Comma == 44
DbcsBase == 65536

Encodings == <<"utf-8", "gbk", "gb2312", "gb18030", "big5", "utf-16">>

Char(n, cp) == [st |-> "char", n |-> n, cp |-> cp]
Bad == [st |-> "bad", n |-> 0, cp |-> 0]
More == [st |-> "more", n |-> 0, cp |-> 0]

\* allowed range of continuation byte k after the lead byte b (UTF-8)
Utf8ContLo(b, k) == IF k = 1 /\ b = 224 THEN 160 ELSE IF k = 1 /\ b = 240 THEN 144 ELSE 128
Utf8ContHi(b, k) == IF k = 1 /\ b = 237 THEN 159 ELSE IF k = 1 /\ b = 244 THEN 143 ELSE 191

RECURSIVE Utf8Cont(_, _, _, _, _)
Utf8Cont(bs, i, k, need, cp) ==
    IF k > need THEN Char(need + 1, cp)
    ELSE IF i + k > Len(bs) THEN More
    ELSE IF bs[i + k] < Utf8ContLo(bs[i], k) \/ bs[i + k] > Utf8ContHi(bs[i], k) THEN Bad
    ELSE Utf8Cont(bs, i, k + 1, need, cp * 64 + (bs[i + k] - 128))

StepUtf8(bs, i) ==
    LET b == bs[i]
    IN IF b < 128 THEN Char(1, b)
       ELSE IF b >= 194 /\ b <= 223 THEN Utf8Cont(bs, i, 1, 1, b - 192)
       ELSE IF b >= 224 /\ b <= 239 THEN Utf8Cont(bs, i, 1, 2, b - 224)
       ELSE IF b >= 240 /\ b <= 244 THEN Utf8Cont(bs, i, 1, 3, b - 240)
       ELSE Bad

\* lead and trail bytes of the double-byte codecs; of the bytes the model
\* uses, row 0xFE of gbk and the pair A9 FE of gbk and gb2312 are unassigned
DbcsLead(enc, b) ==
    CASE enc = "gbk"     -> b >= 129 /\ b <= 253
      [] enc = "gb2312"  -> b >= 161 /\ b <= 247
      [] enc = "gb18030" -> b >= 129 /\ b <= 254
      [] OTHER           -> b >= 161 /\ b <= 249

DbcsTrail(enc, b, c) ==
    CASE enc = "gbk"     -> c >= 64 /\ c <= 254 /\ c # 127 /\ ~(b = 169 /\ c = 254)
      [] enc = "gb2312"  -> c >= 161 /\ c <= 254 /\ ~(b = 169 /\ c = 254)
      [] enc = "gb18030" -> c >= 64 /\ c <= 254 /\ c # 127
      [] OTHER           -> (c >= 64 /\ c <= 126) \/ (c >= 161 /\ c <= 254)

IsDigitByte(c) == c >= 48 /\ c <= 57

StepDbcs(enc, bs, i) ==
    LET b == bs[i]
    IN IF b < 128 THEN Char(1, b)
       ELSE IF i + 1 > Len(bs) THEN More
       ELSE IF ~DbcsLead(enc, b) THEN Bad
       ELSE IF enc = "gb18030" /\ IsDigitByte(bs[i + 1])
       THEN (IF i + 2 > Len(bs) THEN More
             ELSE IF bs[i + 2] < 129 \/ bs[i + 2] > 254 THEN Bad
             ELSE IF i + 3 > Len(bs) THEN More
             ELSE IF ~IsDigitByte(bs[i + 3]) THEN Bad
             ELSE Char(4, DbcsBase * 2 + 256 * b + bs[i + 2]))
       ELSE IF DbcsTrail(enc, b, bs[i + 1]) THEN Char(2, DbcsBase + 256 * b + bs[i + 1])
       ELSE Bad

Unit16(bs, i, le) == IF le THEN 256 * bs[i + 1] + bs[i] ELSE 256 * bs[i] + bs[i + 1]
IsHighSurrogate(u) == u >= 55296 /\ u <= 56319
IsLowSurrogate(u) == u >= 56320 /\ u <= 57343

StepUtf16(bs, i, le) ==
    IF i + 1 > Len(bs) THEN More
    ELSE LET u == Unit16(bs, i, le)
         IN IF IsLowSurrogate(u) THEN Bad
            ELSE IF ~IsHighSurrogate(u) THEN Char(2, u)
            ELSE IF i + 3 > Len(bs) THEN More
            ELSE IF ~IsLowSurrogate(Unit16(bs, i + 2, le)) THEN Bad
            ELSE Char(4, DbcsBase + 1024 * (u - 55296) + (Unit16(bs, i + 2, le) - 56320))

Decoded(kind, text, pending) == [kind |-> kind, text |-> text, pending |-> pending]

RECURSIVE DecodeFrom(_, _, _, _, _)
DecodeFrom(enc, bs, i, le, acc) ==
    IF i > Len(bs) THEN Decoded("ok", acc, FALSE)
    ELSE LET s == CASE enc = "utf-8"  -> StepUtf8(bs, i)
                    [] enc = "utf-16" -> StepUtf16(bs, i, le)
                    [] OTHER          -> StepDbcs(enc, bs, i)
         IN CASE s.st = "bad"  -> Decoded("decode_error", acc, FALSE)
              [] s.st = "more" -> Decoded("ok", acc, TRUE)
              [] OTHER         -> DecodeFrom(enc, bs, i + s.n, le, Append(acc, s.cp))

\* The incremental decoder of the encoding on the bytes bs, before the end
\* of the file is signalled: kind "ok" with the text decoded and whether an
\* incomplete sequence is held back, "decode_error" for UnicodeDecodeError,
\* "error" for the UnicodeError of a UTF-16 stream without a byte order mark.
Decode(enc, bs) ==
    IF enc # "utf-16" THEN DecodeFrom(enc, bs, 1, TRUE, <<>>)
    ELSE IF Len(bs) = 0 THEN Decoded("ok", <<>>, FALSE)
    ELSE IF Len(bs) = 1 THEN Decoded("ok", <<>>, TRUE)
    ELSE IF bs[1] = 255 /\ bs[2] = 254 THEN DecodeFrom(enc, bs, 3, TRUE, <<>>)
    ELSE IF bs[1] = 254 /\ bs[2] = 255 THEN DecodeFrom(enc, bs, 3, FALSE, <<>>)
    ELSE Decoded("error", <<>>, FALSE)

\* the lines of a text, each with its line end (f.readlines())
RECURSIVE LinesOf(_, _)
LinesOf(text, cur) ==
    IF text = <<>> THEN (IF cur = <<>> THEN <<>> ELSE <<cur>>)
    ELSE IF Head(text) = LF THEN <<Append(cur, LF)>> \o LinesOf(Tail(text), <<>>)
    ELSE LinesOf(Tail(text), Append(cur, Head(text)))

StripLF(line) ==
    IF line # <<>> /\ line[Len(line)] = LF THEN SubSeq(line, 1, Len(line) - 1) ELSE line

\* the fields of one line for csv.reader (no quote character occurs); a
\* blank line is the empty row
RECURSIVE FieldsOf(_, _)
FieldsOf(line, cur) ==
    IF line = <<>> THEN <<cur>>
    ELSE IF Head(line) = Comma THEN <<cur>> \o FieldsOf(Tail(line), <<>>)
    ELSE FieldsOf(Tail(line), Append(cur, Head(line)))

CsvRow(line) == IF StripLF(line) = <<>> THEN <<>> ELSE FieldsOf(StripLF(line), <<>>)

\* lines of bytes that files are made of: "a", "a,a", "a,a,a", the GBK
\* character D6 D0, the UTF-8 character C3 A9, the byte FF, an empty line,
\* the UTF-16 byte order mark and "a" in UTF-16
LineA == <<97, 10>>
LineAA == <<97, 44, 97, 10>>
LineAAA == <<97, 44, 97, 44, 97, 10>>
LineGbk == <<214, 208, 10>>
LineUtf8 == <<195, 169, 10>>
LineBad == <<255, 10>>
Blank == <<10>>
Bom == <<255, 254>>
Line16 == <<97, 0, 10, 0>>

\* ------------------------------------------------------------------------
\* process_text
\* ------------------------------------------------------------------------
TextLimit == 10

\* f.readlines(): reads to the end of the file, where an incomplete
\* trailing sequence raises UnicodeDecodeError
ReadText(enc, bs) ==
    LET r == Decode(enc, bs)
    IN IF r.kind = "ok" /\ r.pending THEN Decoded("decode_error", r.text, FALSE) ELSE r

CountLF(text) == Cardinality({i \in 1..Len(text) : text[i] = LF})

\* the loop of lines 280-284 reads rows 0..10 and breaks on row 10: with 11
\* complete lines decoded it never reads up to the end of the file
ReadCsv(enc, bs) ==
    LET r == Decode(enc, bs)
    IN IF r.kind = "ok" /\ r.pending /\ CountLF(r.text) < TextLimit + 1
       THEN Decoded("decode_error", r.text, FALSE)
       ELSE r

\* rows of lines 279-284
CsvRows(text) ==
    LET lines == Take(LinesOf(text, <<>>), TextLimit)
    IN [i \in 1..Len(lines) |-> CsvRow(lines[i])]

CsvTableRagged(rows) == rows

\* lines 288-295: a table of len(rows) x len(rows[0]) empty cells, filled
\* from the rows as far as the table has cells
CsvTable(rows) ==
    [i \in 1..Len(rows) |->
        [j \in 1..Len(rows[1]) |-> IF j <= Len(rows[i]) THEN rows[i][j] ELSE <<>>]]

CouldNotDecode == "Could not decode file with any of the attempted encodings."
CsvPresented == "CSV data presented as table (first 10 rows). Detected encoding: "
DetectedEncoding == "Detected encoding: "
CsvEmpty == "CSV file appears to be empty."
ErrFile == "Error processing file"

\* lines 273-304: the body of the with block once the text was read
TextContent(d, is_csv, enc, text) ==
    IF is_csv
    THEN LET rows == CsvRows(text)
         IN IF rows # <<>>
            THEN add_paragraph(add_table(d, CsvTable(rows), "Table Grid"),
                               MsgWith(CsvPresented, enc))
            ELSE add_paragraph(d, Msg(CsvEmpty))
    ELSE add_paragraph(add_paragraph(d, Txt(Concat(Take(LinesOf(text, <<>>), TextLimit)))),
                       MsgWith(DetectedEncoding, enc))

\* the for loop of lines 270-318 from the k-th encoding on
RECURSIVE TryEncodings(_, _, _, _, _)
TryEncodings(file_path, d, bs, is_csv, k) ==
    LET enc == Encodings[k]
        r   == IF is_csv THEN ReadCsv(enc, bs) ELSE ReadText(enc, bs)
    IN CASE r.kind = "ok" -> Result(TextContent(d, is_csv, enc, r.text), <<>>)
         [] r.kind = "decode_error" ->
                IF k = Len(Encodings)
                THEN Result(add_paragraph(d, Msg(CouldNotDecode)),
                            <<ErrProcessing(file_path)>>)
                ELSE TryEncodings(file_path, d, bs, is_csv, k + 1)
         [] OTHER -> Result(add_paragraph(d, Msg(ErrFile)), <<ErrProcessing(file_path)>>)

\* c.open: whether open() of the file fails; c.bytes: the content of the file
process_text(file_path, d, c) ==
    LET is_csv == endswith(lower(file_path), <<".", "c", "s", "v">>)
    IN IF c.open # "none"
       THEN Result(add_paragraph(d, Msg(ErrFile)), <<ErrProcessing(file_path)>>)
       ELSE TryEncodings(file_path, d, c.bytes, is_csv, 1)

\* ------------------------------------------------------------------------
\* What the converters do to the files on disk.  A file is a pair
\* <<path, content>>; the content of a file of the input tree is "input",
\* of a PDF written by the office export "export", of a page image "raster".
\* ------------------------------------------------------------------------
exists(f, p) == \E e \in f : e[1] = p
os_remove(f, p) == {e \in f : e[1] # p}
write(f, p, content) == os_remove(f, p) \cup {<<p, content>>}

\* process_pdf, lines 46-50: pix.save writes temp_<basename>.png into the
\* working directory, os.remove deletes it after doc.add_picture
process_pdf_files(file_path, f, c) ==
    LET img_path == temp_image(file_path)
    IN CASE c = "raster" -> f
         [] c = "none"   -> os_remove(write(f, img_path, "raster"), img_path)
         [] OTHER        -> write(f, img_path, "raster")

\* process_word lines 79-97 and process_excel lines 151-169: the export
\* writes pdf_path, which is removed at the end of the try body only
office_files(file_path, f, c) ==
    LET pdf_path == pdf_path_of(file_path)
        exported == write(f, pdf_path, "export")
    IN CASE c.primary \in SessionFails \cup {"open", "export"} -> f
         [] c.primary \in {"close", "uninit"} -> exported
         [] c.primary = "remove" -> process_pdf_files(pdf_path, exported, c.pdf)
         [] OTHER -> os_remove(process_pdf_files(pdf_path, exported, c.pdf), pdf_path)

\* ------------------------------------------------------------------------
\* Automation sessions: how many CoInitialize calls and how many
\* CoUninitialize calls of one operation succeeded
\* ------------------------------------------------------------------------
Session(step, a, r) == [step |-> step, acquired |-> a, released |-> r]

\* the CoUninitialize of the except branch (lines 105, 177)
HandlerRelease(c) == IF c.fb = "uninit" THEN 0 ELSE 1

\* process_word lines 72-105, process_excel lines 143-177
office_session(step, c) ==
    CASE c.primary = "coinit"   -> Session(step, 0, 0)
      [] c.primary = "dispatch" -> Session(step, 1, 0)
      [] c.primary = "none"     -> Session(step, 1, 1)
      [] c.primary = "remove"   -> Session(step, 1, 1 + HandlerRelease(c))
      [] OTHER                  -> Session(step, 1, HandlerRelease(c))

\* where the table of contents refresh can fail (lines 592-605, 615-626):
\* CoInitialize, DispatchEx, or a step on the opened document
TocFails == {"coinit", "dispatch", "update"}

toc_session(step, at) ==
    CASE at = "none"   -> Session(step, 1, 1)
      [] at = "coinit" -> Session(step, 0, 0)
      [] OTHER         -> Session(step, 1, 0)

\* ------------------------------------------------------------------------
\* Values of the variables an operation does not use
\* ------------------------------------------------------------------------
NoTree == <<>>

Idle ==
    /\ tree = NoTree
    /\ idx = 1
    /\ doc = <<>>
    /\ file_bookmarks = <<>>
    /\ console = <<>>
    /\ saved = {}
    /\ exitcode = -1
    /\ hist = <<>>
    /\ sessions = <<>>

\* ------------------------------------------------------------------------
\* generate_report and the command line entry
\* ------------------------------------------------------------------------
Str(s) == [i \in 1..Len(s) |-> s[i]]

ExtPdf == {<<".", "p", "d", "f">>}
ExtWord == {<<".", "d", "o", "c">>, <<".", "d", "o", "c", "x">>}
ExtExcel == {<<".", "x", "l", "s">>, <<".", "x", "l", "s", "x">>}
ExtImage == {<<".", "p", "n", "g">>, <<".", "j", "p", "g">>, <<".", "j", "p", "e", "g">>,
             <<".", "g", "i", "f">>, <<".", "b", "m", "p">>}
ExtText == {<<".", "t", "x", "t">>, <<".", "l", "o", "g">>, <<".", "m", "d">>,
            <<".", "c", "s", "v">>}

\* the if / elif chain of lines 539-564 on ext = file.lower()
Category(file) ==
    LET ext == lower(file)
    IN IF endswithAny(ext, ExtPdf) THEN "pdf"
       ELSE IF endswithAny(ext, ExtWord) THEN "word"
       ELSE IF endswithAny(ext, ExtExcel) THEN "excel"
       ELSE IF endswithAny(ext, ExtImage) THEN "image"
       ELSE IF endswithAny(ext, ExtText) THEN "text"
       ELSE "none"

\* file_bookmarks[key] = value on an insertion-ordered dict
DictSet(dict, key, value) ==
    IF \E i \in 1..Len(dict) : dict[i][1] = key
    THEN [i \in 1..Len(dict) |-> IF dict[i][1] = key THEN <<key, value>> ELSE dict[i]]
    ELSE Append(dict, <<key, value>>)

\* the files os.walk can yield: directories and the names in them
Root1 == <<"i">>
Root2 == <<"i", sep, "s">>
Candidates ==
    {[root |-> Root1, file |-> f] :
        f \in {<<"a", ".", "p", "d", "f">>, <<"a", ".", "d", "o", "c", "x">>,
               <<"c", ".", "x", "l", "s", "x">>, <<"e", ".", "t", "x", "t">>,
               <<"g", ".", "z", "i", "p">>}}
    \cup {[root |-> Root2, file |-> f] :
        f \in {<<"a", ".", "p", "d", "f">>, <<"d", ".", "p", "n", "g">>}}

\* os.walk is top-down: the files of a directory come before those of its
\* subdirectories, and no path comes twice
Trees ==
    {t \in SeqsUpTo(Candidates, MaxFiles) :
        \A i, j \in 1..Len(t) :
            i < j => /\ t[i] # t[j]
                     /\ ~(t[i].root = Root2 /\ t[j].root = Root1)}

\* what the files of the walk hold
WalkSheet == [max_column |-> 2, max_row |-> 2, nulls |-> {}]
WalkTexts == {LineA, LineGbk, LineBad}
TextChoices ==
    {[open |-> "none", bytes |-> b] : b \in WalkTexts}
    \cup {[open |-> "denied", bytes |-> <<>>]}

\* lines 485-523: the title, the table of contents heading and field
NewDocument ==
    add_paragraph(
        add_paragraph(
            AddInline(
                add_paragraph(
                    add_heading(add_heading(<<>>, Msg("Document Screenshot Report"), 0),
                                Msg("Table of Contents"), 1),
                    Txt(<<>>)),
                <<"field", "TOC">>),
            Txt(<<>>)),
        Msg("page break"))

\* lines 541-544, the same in every branch: heading, bookmark, location
FileHeader(d, file_path, bookmark_name, path_context) ==
    add_paragraph(
        add_bookmark(
            add_heading(d, Txt(basename(file_path) \o <<" ", "[">> \o path_context \o <<"]">>), 2),
            bookmark_name),
        MsgWith("Location: ", dirname(file_path)))

\* the converter call of the branch, on the collaborators' behaviour c
Convert(cat, file_path, d, c) ==
    CASE cat = "pdf"   -> process_pdf(file_path, d, c)
      [] cat = "word"  -> process_word(file_path, d, c)
      [] cat = "excel" -> process_excel(file_path, d, c)
      [] cat = "image" -> process_image(file_path, d, c)
      [] OTHER         -> process_text(file_path, d, c)

\* what the converter of the branch does to the files on disk
ConvertFiles(cat, file_path, f, c) ==
    CASE cat = "pdf"               -> process_pdf_files(file_path, f, c)
      [] cat \in {"word", "excel"} -> office_files(file_path, f, c)
      [] OTHER                     -> f

\* the automation sessions of the branch
ConvertSessions(cat, c) ==
    IF cat \in {"word", "excel"} THEN <<office_session(cat, c)>> ELSE <<>>

ChoicesOf(cat) ==
    CASE cat = "pdf"   -> PdfFails
      [] cat = "word"  -> WordChoices
      [] cat = "excel" -> ConverterChoices({WalkSheet})
      [] cat = "image" -> ImageFails
      [] cat = "text"  -> TextChoices
      [] OTHER         -> {"n/a"}

\* the files under the input directory when the run starts
InputFiles(t) == {<<join2(t[i].root, t[i].file), "input">> : i \in 1..Len(t)}

\* fitz.open of a file that is no longer on disk raises
Available(cat, file_path, f) ==
    IF cat = "pdf" /\ ~exists(f, file_path) THEN {"raster"} ELSE ChoicesOf(cat)

Init ==
    /\ pc = "main"
    /\ arg \in [isdir : BOOLEAN]
    /\ ret = <<>>
    /\ tree \in Trees
    /\ idx = 1
    /\ doc = <<>>
    /\ file_bookmarks = <<>>
    /\ console = <<>>
    /\ saved = {}
    /\ exitcode = -1
    /\ hist = <<>>
    /\ fs = InputFiles(tree)
    /\ sessions = <<>>

\* lines 652-659: the input directory check
Main ==
    /\ pc = "main"
    /\ IF arg.isdir
       THEN /\ pc' = "begin"
            /\ console' = Append(console, Msg("Processing files in"))
            /\ exitcode' = exitcode
       ELSE /\ pc' = "exit"
            /\ console' = Append(console, Msg("Error: Input directory does not exist."))
            /\ exitcode' = 1
    /\ UNCHANGED <<arg, ret, tree, idx, doc, file_bookmarks, saved, hist, fs, sessions>>

\* lines 483-526
Begin ==
    /\ pc = "begin"
    /\ doc' = NewDocument
    /\ file_bookmarks' = <<>>
    /\ pc' = "walk"
    /\ UNCHANGED <<arg, ret, tree, idx, console, saved, exitcode, hist, fs, sessions>>

\* lines 530-569: the body of the walk for the next file
VisitFile ==
    /\ pc = "walk"
    /\ idx <= Len(tree)
    /\ LET file          == tree[idx].file
           file_path     == join2(tree[idx].root, file)
           bookmark_name == get_valid_bookmark_name(file_path)
           path_context  == get_path_context(file_path)
           cat           == Category(file)
       IN /\ file_bookmarks' = DictSet(file_bookmarks, file_path, bookmark_name)
          /\ \E c \in Available(cat, file_path, fs) :
                LET r == IF cat = "none" THEN Result(doc, <<>>)
                         ELSE Convert(cat, file_path,
                                      FileHeader(doc, file_path, bookmark_name, path_context),
                                      c)
                IN /\ doc' = r.doc
                   /\ console' = console \o r.out
                   /\ hist' = Append(hist, [step |-> cat, path |-> file_path,
                                            choice |-> c, out |-> r.out])
                   /\ fs' = ConvertFiles(cat, file_path, fs, c)
                   /\ sessions' = sessions \o ConvertSessions(cat, c)
                   /\ IF r.raised
                      THEN pc' = "raised" /\ exitcode' = 1
                      ELSE pc' = "walk" /\ exitcode' = exitcode
    /\ idx' = idx + 1
    /\ UNCHANGED <<arg, ret, tree, saved>>

\* lines 575-585: one entry of the File Index
IndexEntry(d, file_path, bookmark_name) ==
    LET filename == basename(file_path)
    IN add_run(
           add_run(
               add_internal_hyperlink(add_paragraph(d, Txt(<<>>)), filename, bookmark_name,
                                      MsgWith("Go to ", filename)),
               Txt(<<" ", "(">> \o splitext1(filename) \o <<")", " ", "-", " ">>
                   \o get_path_context(file_path))),
           MsgWith("Location: ", dirname(file_path)))

RECURSIVE IndexEntries(_, _)
IndexEntries(d, items) ==
    IF items = <<>> THEN d
    ELSE IndexEntries(IndexEntry(d, Head(items)[1], Head(items)[2]), Tail(items))

FileIndex == Msg("File Index")

\* lines 572-585
BuildIndex ==
    /\ pc = "walk"
    /\ idx > Len(tree)
    /\ doc' = IndexEntries(add_heading(doc, FileIndex, 1), file_bookmarks)
    /\ pc' = "save"
    /\ UNCHANGED <<arg, ret, tree, idx, file_bookmarks, console, saved, exitcode, hist,
                   fs, sessions>>

Event(step, outcome) == [step |-> step, path |-> <<>>, choice |-> outcome, out |-> <<>>]

Raise(line) ==
    /\ pc' = "raised"
    /\ exitcode' = 1
    /\ console' = console \o line

\* lines 588-589, and the handlers of lines 606 and 631 for a failed save
SavePrimary ==
    /\ pc = "save"
    /\ \E o \in {"ok", "permission", "other"} :
          /\ hist' = Append(hist, Event("save", o))
          /\ CASE o = "ok" ->
                    /\ saved' = saved \cup {"output"}
                    /\ console' = Append(console, Msg("Report generated at"))
                    /\ pc' = "toc"
                    /\ exitcode' = exitcode
               [] o = "permission" ->
                    /\ pc' = "save_alt"
                    /\ UNCHANGED <<saved, console, exitcode>>
               [] OTHER ->
                    /\ Raise(<<Msg("Error saving report")>>)
                    /\ saved' = saved
    /\ UNCHANGED <<arg, ret, tree, idx, doc, file_bookmarks, fs, sessions>>

\* lines 592-605: the table of contents refresh through Word automation;
\* its failure is handled by the except clause of line 631
UpdateTOC ==
    /\ pc = "toc"
    /\ \E at \in {"none"} \cup TocFails :
          LET o == IF at = "none" THEN "ok" ELSE "failed"
          IN /\ hist' = Append(hist, Event("toc", o))
             /\ sessions' = Append(sessions, toc_session("toc", at))
             /\ IF o = "ok"
                THEN pc' = "done" /\ exitcode' = 0 /\ console' = console
                ELSE Raise(<<Msg("Error saving report")>>)
    /\ UNCHANGED <<arg, ret, tree, idx, doc, file_bookmarks, saved, fs>>

SubstitutionReported ==
    <<Msg("Could not save to output due to permission denied."),
      Msg("Report saved to alternative location")>>

FailedBoth ==
    <<Msg("Failed to save report to both original and alternative locations."),
      Msg("Please ensure you have write permissions or try a different output location.")>>

\* lines 607-612: the save to report_<name> in the working directory
SaveAlt ==
    /\ pc = "save_alt"
    /\ \E o \in {"ok", "failed"} :
          /\ hist' = Append(hist, Event("save_alt", o))
          /\ IF o = "ok"
             THEN /\ saved' = saved \cup {"report_output"}
                  /\ console' = console \o SubstitutionReported
                  /\ pc' = "toc_alt"
                  /\ exitcode' = exitcode
             ELSE /\ Raise(FailedBoth)
                  /\ saved' = saved
    /\ UNCHANGED <<arg, ret, tree, idx, doc, file_bookmarks, fs, sessions>>

\* lines 615-626, and the handler of lines 627-630 for its failure
UpdateTOCAlt ==
    /\ pc = "toc_alt"
    /\ \E at \in {"none"} \cup TocFails :
          LET o == IF at = "none" THEN "ok" ELSE "failed"
          IN /\ hist' = Append(hist, Event("toc_alt", o))
             /\ sessions' = Append(sessions, toc_session("toc_alt", at))
             /\ IF o = "ok"
                THEN pc' = "done" /\ exitcode' = 0 /\ console' = console
                ELSE Raise(FailedBoth)
    /\ UNCHANGED <<arg, ret, tree, idx, doc, file_bookmarks, saved, fs>>

Next ==
    \/ Main
    \/ Begin
    \/ VisitFile
    \/ BuildIndex
    \/ SavePrimary
    \/ UpdateTOC
    \/ SaveAlt
    \/ UpdateTOCAlt

Spec == Init /\ [][Next]_vars

\* ------------------------------------------------------------------------
\* Properties of generate_report
\* ------------------------------------------------------------------------
Range(f) == {f[i] : i \in DOMAIN f}

IndexBuilt == \E i \in 1..Len(doc) : doc[i] = Block("heading1", FileIndex)
IndexPos == CHOOSE i \in 1..Len(doc) : doc[i] = Block("heading1", FileIndex)
EntryPositions == (IndexPos + 1)..Len(doc)
EntryAnchor(b) == b.w[1][2]
EntryFile(b) == b.w[1][3]

PathOf(f) == join2(f.root, f.file)
Recognized(f) == Category(f.file) # "none"
Rendered == {i \in 1..Len(tree) : Recognized(tree[i])}

\* the heading of a file's PreviewBlock stands at position p of the document
HeadingAt(p, file_path) ==
    /\ doc[p].k = "heading2"
    /\ doc[p].v = Txt(basename(file_path) \o <<" ", "[">> \o get_path_context(file_path)
                      \o <<"]">>)

\* C1: after the walk the File Index holds exactly one IndexEntry for each
\* Rendered file and none for a file with an unrecognized extension.
C1_IndexListsRenderedOnly ==
    IndexBuilt =>
        /\ Cardinality(EntryPositions) = Cardinality(Rendered)
        /\ \A p \in EntryPositions : Category(EntryFile(doc[p])) # "none"

\* C2: every anchor an IndexEntry links to was placed as a bookmark on the
\* heading of that file's PreviewBlock, earlier in the document.
C2_AnchorsPlaced ==
    IndexBuilt =>
        \A p \in EntryPositions :
            \E q \in 1..(IndexPos - 1) :
                /\ doc[q].k = "heading2"
                /\ <<"bookmark", EntryAnchor(doc[p])>> \in Range(doc[q].w)

SaveSteps == {"save", "toc", "save_alt", "toc_alt"}

\* C3: no failure raised while processing a file escapes its converter:
\* every visited file with a recognized extension has its heading, anchor,
\* location line and converter call, the run is never ended by the walk, and
\* a run that ended has built the index and attempted the save.
C3_NoFailureEscapes ==
    /\ \A i \in 1..Len(hist) :
          (hist[i].step \notin SaveSteps /\ hist[i].step # "none") =>
              \E p \in 1..(Len(doc) - 1) :
                  /\ HeadingAt(p, hist[i].path)
                  /\ doc[p].w = << <<"bookmark", get_valid_bookmark_name(hist[i].path)>> >>
                  /\ doc[p + 1] = Block("paragraph",
                                        MsgWith("Location: ", dirname(hist[i].path)))
    /\ \A i \in 1..(idx - 1) :
          i <= Len(tree) => /\ hist[i].path = PathOf(tree[i])
                            /\ hist[i].step = Category(tree[i].file)
    /\ pc \in {"done", "raised"} =>
          /\ idx = Len(tree) + 1
          /\ IndexBuilt
          /\ \E i \in 1..Len(hist) : hist[i].step = "save"

\* a run that ended normally although the first file's conversion failed,
\* with a recognized file after it
C3_Witness ==
    /\ pc = "done"
    /\ Len(tree) >= 2
    /\ hist[1].step = "pdf" /\ hist[1].choice = "raster"
    /\ Recognized(tree[2])
    /\ \E p \in 1..Len(doc) : HeadingAt(p, PathOf(tree[2]))

Happened(step, outcome) == \E i \in 1..Len(hist) : hist[i] = Event(step, outcome)

\* C4: when the save to the output path fails for want of write permission
\* and the save to report_<name> succeeds, the file is there, the
\* substitution is reported and the run does not fail; a fatal error is
\* surfaced only if the fallback save fails as well.
C4_FallbackSaveCompletes ==
    /\ Happened("save_alt", "ok") =>
          /\ "report_output" \in saved
          /\ \E i \in 1..(Len(console) - 1) :
                SubSeq(console, i, i + 1) = SubstitutionReported
          /\ pc # "raised"
    /\ (pc = "raised" /\ Happened("save", "permission")) => Happened("save_alt", "failed")

\* C5: once the input directory is accepted the run fails only when the
\* report could be saved nowhere; a failure of the table of contents refresh
\* after a successful save leaves the run ending with exit code 0.
C5_FailsOnlyWhenNothingSaved ==
    /\ (arg.isdir /\ exitcode = 1) => saved = {}
    /\ (Happened("toc", "failed") \/ Happened("toc_alt", "failed")) => exitcode # 1

FallbackRan(i) ==
    \E k \in 1..Len(hist[i].out) :
        hist[i].out[k] \in {Msg("Error converting Word to PDF"),
                            Msg("Error converting Excel to PDF")}

\* C6: in process_word and process_excel the fallback runs if and only if
\* the primary path failed at creating the session, opening the file or
\* exporting it; it does not run when the export succeeded.
C6_FallbackIffPrimaryFailed ==
    \A i \in 1..Len(hist) :
        hist[i].step \in {"word", "excel"} =>
            /\ FallbackRan(i) <=> hist[i].choice.primary \in {"coinit", "dispatch", "open", "export"}
            /\ hist[i].choice.primary \in ExportedAt => ~FallbackRan(i)

\* C11: in process_word, process_excel and the table of contents refresh,
\* on every path, each acquisition of an automation session (CoInitialize)
\* is matched by exactly one release (CoUninitialize) before the operation
\* returns: no more releases than acquisitions and no session left open.
C11_SessionsBalanced ==
    \A i \in 1..Len(sessions) : sessions[i].released = sessions[i].acquired

\* C12: a temporary raster file process_pdf created no longer exists when
\* process_pdf has returned, whether or not embedding the picture succeeded.
C12_TempRasterRemoved ==
    \A e \in fs : e[2] # "raster"

\* C13: when the run has ended, every file that was under the input
\* directory at its start is still there with the same content.
C13_InputTreeUnchanged ==
    pc \in {"done", "raised"} => InputFiles(tree) \subseteq fs

\* ------------------------------------------------------------------------
\* get_path_context applied to the paths os.walk can hand to it
\* ------------------------------------------------------------------------
DirNames == {<<"a">>, <<"b">>, <<".", ".">>, <<>>}
Prefixes == {<<>>, <<sep>>, <<Drive, sep>>, <<Drive>>}

\* directory names joined by single separators; an empty name gives "//"
RECURSIVE SepJoin(_)
SepJoin(names) ==
    IF names = <<>> THEN <<>>
    ELSE IF Len(names) = 1 THEN names[1]
    ELSE names[1] \o <<sep>> \o SepJoin(Tail(names))

\* the root directory strings of the walk: a prefix and up to MaxDepth names;
\* a leading double separator (a UNC share) is left out
WalkDirs ==
    {pre \o SepJoin(ns) :
        pre \in Prefixes,
        ns \in {n \in SeqsUpTo(DirNames, MaxDepth) : n = <<>> \/ n[1] # <<>>}}

FileName == <<"f">>

PathInit ==
    /\ pc = "path_call"
    /\ arg \in {join2(d, FileName) : d \in WalkDirs}
    /\ ret = <<>>
    /\ fs = {}
    /\ Idle

PathCall ==
    /\ pc = "path_call"
    /\ pc' = "path_ret"
    /\ ret' = get_path_context(arg)
    /\ UNCHANGED <<arg, tree, idx, doc, file_bookmarks, console, saved,
                   exitcode, hist, fs, sessions>>

PathNext == PathCall

SpecPath == PathInit /\ [][PathNext]_vars

\* the directory names of a path, left to right, without the drive
RECURSIVE NamesOf(_, _)
NamesOf(s, cur) ==
    IF s = <<>> THEN (IF cur = <<>> THEN <<>> ELSE <<cur>>)
    ELSE IF Head(s) = sep
         THEN (IF cur = <<>> THEN <<>> ELSE <<cur>>) \o NamesOf(Tail(s), <<>>)
    ELSE IF Head(s) = Drive THEN NamesOf(Tail(s), <<>>)
    ELSE NamesOf(Tail(s), Append(cur, Head(s)))

ContainingDir(file_path) ==
    SubSeq(file_path, 1, Len(file_path) - Len(FileName))

\* C10: get_path_context returns the last min(3, d) directory names of the
\* containing directory, root-to-leaf, joined by the separator (d = number of
\* directory names above the file); with no directory name available it
\* returns the containing-directory string.
C10_PathContext ==
    pc = "path_ret" =>
        LET names == NamesOf(ContainingDir(arg), <<>>)
            d     == Len(names)
        IN /\ d > 0 => /\ ret = SepJoin(LastN(names, Min(3, d)))
                       /\ Len(NamesOf(ret, <<>>)) = Min(3, d)
           /\ d = 0 => ret = ContainingDir(arg)

\* a file at depth 5 whose context has exactly 3 segments
C10_Witness ==
    /\ pc = "path_ret"
    /\ Len(NamesOf(ContainingDir(arg), <<>>)) = 5
    /\ Len(NamesOf(ret, <<>>)) = 3
    /\ ret # <<>>

\* ------------------------------------------------------------------------
\* process_text applied to text and CSV files
\* ------------------------------------------------------------------------

\* 8-bit files: a head, up to MaxRepeat equal lines, a tail; and UTF-16
\* files with a byte order mark.  A zero byte occurs only after the mark.
TextHeads == {<<>>, LineGbk, Blank, LineAA \o LineA}
TextBodies == {LineA, LineAA}
TextTails == {<<>>, LineGbk, LineUtf8, LineBad, <<214>>, <<97>>, LineAAA, Blank}
Tails16 == {<<>>, <<97>>, <<97, 0>>, <<0, 216>>, <<0, 220>>}

TextBytes ==
    {h \o Rep(b, n) \o t :
        h \in TextHeads, b \in TextBodies, n \in 0..MaxRepeat, t \in TextTails}
    \cup {Bom \o Rep(Line16, n) \o t : n \in 0..MaxRepeat, t \in Tails16}

TextPaths ==
    {<<"e", ".", "t", "x", "t">>, <<"f", ".", "c", "s", "v">>,
     <<"F", ".", "C", "S", "V">>}

TextInit ==
    /\ pc = "text_call"
    /\ arg \in [path : TextPaths, bytes : TextBytes, open : {"none", "denied"}]
    /\ ret = <<>>
    /\ fs = {<<arg.path, "input">>}
    /\ Idle

TextCall ==
    /\ pc = "text_call"
    /\ LET r == process_text(arg.path, doc, [open |-> arg.open, bytes |-> arg.bytes])
       IN /\ doc' = r.doc
          /\ console' = console \o r.out
          /\ ret' = r.raised
    /\ pc' = "text_ret"
    /\ UNCHANGED <<arg, tree, idx, file_bookmarks, saved, exitcode, hist, fs, sessions>>

TextNext == TextCall

SpecText == TextInit /\ [][TextNext]_vars

ArgIsCsv == endswith(lower(arg.path), <<".", "c", "s", "v">>)

\* the encoding the report names as detected, "" when it names none
ReportedEncoding ==
    IF doc # <<>> /\ doc[Len(doc)].k = "paragraph" /\ doc[Len(doc)].v[1] = "msg"
       /\ doc[Len(doc)].v[2] \in {CsvPresented, DetectedEncoding}
    THEN doc[Len(doc)].v[3] ELSE ""

DiagnosticEmitted == doc = <<Block("paragraph", Msg(CouldNotDecode))>>

\* the first TextLimit lines of the file decode under enc without an error:
\* a prefix of the file decodes completely and holds TextLimit lines, or the
\* whole file decodes
DecodesHead(enc, bs) ==
    \E n \in 0..Len(bs) :
        LET r == Decode(enc, SubSeq(bs, 1, n))
        IN /\ r.kind = "ok" /\ ~r.pending
           /\ n = Len(bs) \/ CountLF(r.text) >= TextLimit

FirstDecoding(bs) ==
    LET ok == {k \in 1..Len(Encodings) : DecodesHead(Encodings[k], bs)}
    IN IF ok = {} THEN 0 ELSE CHOOSE k \in ok : \A j \in ok : k <= j

\* C7: process_text accepts the first encoding, in the order utf-8, gbk,
\* gb2312, gb18030, big5, utf-16, under which the first 10 lines decode, and
\* reports it; the 'could not decode' paragraph is emitted, instead of
\* content, exactly when every encoding fails.
C7_FirstDecodingOfHead ==
    (pc = "text_ret" /\ arg.open = "none") =>
        LET k == FirstDecoding(arg.bytes)
        IN /\ k > 0 => ReportedEncoding = Encodings[k] \/ doc = <<Block("paragraph", Msg(CsvEmpty))>>
           /\ k = 0 <=> DiagnosticEmitted

\* C7, the scenario of the claim: ten ASCII lines followed by a GBK line
C7_TenLinesThenGbk ==
    (pc = "text_ret" /\ arg.open = "none" /\ arg.bytes = Rep(LineA, 10) \o LineGbk)
        => ReportedEncoding = "utf-8"

\* the rows csv.reader yields for the whole decoded text
AllCsvRows(text) ==
    LET lines == LinesOf(text, <<>>)
    IN [i \in 1..Len(lines) |-> CsvRow(lines[i])]

\* the file decodes completely under one of the encodings, to a text that
\* is not empty
DecodableNonEmpty(bs) ==
    \E k \in 1..Len(Encodings) :
        LET r == Decode(Encodings[k], bs)
        IN r.kind = "ok" /\ ~r.pending /\ r.text # <<>>

\* C8: for a non-empty decodable CSV file process_text renders a table of
\* at most 10 rows whose column count is the number of cells of the first
\* row; a shorter row leaves its trailing cells blank, a longer row loses
\* its excess cells, and no error is reported.
C8_CsvTableShape ==
    (pc = "text_ret" /\ arg.open = "none" /\ ArgIsCsv /\ DecodableNonEmpty(arg.bytes)) =>
        /\ Len(doc) = 2
        /\ doc[1].k = "table"
        /\ ReportedEncoding # ""
        /\ console = <<>>
        /\ LET rows == AllCsvRows(Decode(ReportedEncoding, arg.bytes).text)
               t    == doc[1].v
           IN /\ Len(t) = Min(TextLimit, Len(rows))
              /\ \A i \in 1..Len(t) :
                    /\ Len(t[i]) = Len(rows[1])
                    /\ \A j \in 1..Len(t[i]) :
                          t[i][j] = IF j <= Len(rows[i]) THEN rows[i][j] ELSE <<>>

\* a CSV table with a row shorter and a row longer than the first row
C8_Witness ==
    /\ pc = "text_ret" /\ arg.open = "none" /\ ArgIsCsv
    /\ Len(doc) = 2 /\ doc[1].k = "table"
    /\ LET rows == AllCsvRows(Decode(ReportedEncoding, arg.bytes).text)
           t    == doc[1].v
       IN /\ Len(rows[1]) = 2
          /\ \E i \in 1..Len(t) : Len(rows[i]) = 1 /\ t[i] = <<rows[i][1], <<>>>>
          /\ \E i \in 1..Len(t) : Len(rows[i]) = 3 /\ Len(t[i]) = 2

\* ------------------------------------------------------------------------
\* process_excel applied to worksheets
\* ------------------------------------------------------------------------
MaxSheetCols == 15
MaxSheetRows == 20

Sheets ==
    [max_column : 1..MaxSheetCols, max_row : 1..MaxSheetRows,
     nulls : {{}, {<<1, 1>>}, {<<2, 2>>}}]

ExcelPath == <<"c", ".", "x", "l", "s", "x">>

ExcelInit ==
    /\ pc = "excel_call"
    /\ arg \in [sheet : Sheets]
    /\ ret = <<>>
    /\ fs = {<<ExcelPath, "input">>}
    /\ Idle

ExcelCall ==
    /\ pc = "excel_call"
    /\ \E c \in ConverterChoices({arg.sheet}) :
          LET r == process_excel(ExcelPath, doc, c)
          IN /\ doc' = r.doc
             /\ console' = console \o r.out
             /\ hist' = Append(hist, [step |-> "excel", path |-> ExcelPath,
                                      choice |-> c, out |-> r.out])
             /\ ret' = r.raised
             /\ fs' = office_files(ExcelPath, fs, c)
             /\ sessions' = Append(sessions, office_session("excel", c))
    /\ pc' = "excel_ret"
    /\ UNCHANGED <<arg, tree, idx, file_bookmarks, saved, exitcode>>

ExcelNext == ExcelCall

SpecExcel == ExcelInit /\ [][ExcelNext]_vars

\* the fallback was taken and the workbook was loaded
FallbackOnSheet ==
    /\ pc = "excel_ret"
    /\ hist[1].choice.primary \in {"open", "export"}
    /\ hist[1].choice.fb = "none"

\* C9: on its fallback path process_excel appends a table of min(10, C)
\* columns and min(11, R) rows for a sheet of C columns and R rows, each
\* cell holding the text of the sheet value, empty for a null value.
C9_FallbackTable ==
    FallbackOnSheet =>
        LET sheet == arg.sheet
            cols  == Min(10, sheet.max_column)
            rows  == Min(11, sheet.max_row)
        IN /\ Len(doc) = 2
           /\ doc[1].k = "table"
           /\ Len(doc[1].v) = rows
           /\ \A r \in 1..rows :
                 /\ Len(doc[1].v[r]) = cols
                 /\ \A c \in 1..cols :
                       doc[1].v[r][c] = IF CellIsNone(sheet, r, c) THEN <<>>
                                        ELSE str(CellValue(sheet, r, c))
           /\ doc[2] = Block("paragraph", Msg(ExtractedExcel))

====
